---- MODULE Spec2Model ----
(***************************************************************************)
(* llmschema: the schema registry (schema_manager.py), the JSON extractor, *)
(* the response validator and the retry loop of generate_response         *)
(* (core.py).                                                              *)
(*                                                                         *)
(* A Python str is a sequence of characters.  A character is a one-letter  *)
(* string, except the backtick and the double quote, which are the atoms   *)
(* BT and QT.                                                              *)
(***************************************************************************)
EXTENDS Integers, Sequences, FiniteSets, TLC

VARIABLES
    _schema,            \* SchemaManager._schema
    last,               \* the last registry operation and what it gave its caller
    lastSet,            \* history: the most recent set_schema that did not raise, and whether it replaced another schema
    pc,                 \* generate_response: "idle", "loop" (before an attempt), "done"
    max_retries,        \* generate_response: argument
    prompt,             \* generate_response: argument
    schema,             \* generate_response: local, read once from the registry
    structured_prompt,  \* generate_response: local
    attempt,            \* generate_response: loop variable
    invocations,        \* history: ollama.chat calls of this call: prompt sent, outcome, and whether the registry had moved off the schema the call read
    result,             \* what generate_response gave its caller
    response_text,      \* _extract_json called on its own: argument
    parts,              \* history: the pieces response_text was assembled from
    extracted,          \* _extract_json called on its own: outcome
    response_json,      \* validate_response called on its own: argument
    vschema,            \* validate_response called on its own: schema argument
    validated_response  \* validate_response called on its own: outcome

regvars == <<_schema, last, lastSet>>
callvars == <<pc, max_retries, prompt, schema, structured_prompt, attempt, invocations, result>>
exvars == <<response_text, parts, extracted>>
valvars == <<response_json, vschema, validated_response>>
vars == <<regvars, callvars, exvars, valvars>>

(***************************************************************************)
(* Bounds                                                                  *)
(***************************************************************************)
MaxRetries == 2

(***************************************************************************)
(* Python values                                                           *)
(***************************************************************************)
None == [t |-> "null", v |-> <<>>]

BT == "BT"
QT == "QT"
NL == "\n"
SP == " "

Range(s) == {s[i] : i \in 1..Len(s)}

\* str.strip(): leading and trailing whitespace removed
Whitespace == {SP, NL, "\t", "\r"}

FirstKept(s, chars) ==
    IF \E i \in 1..Len(s) : s[i] \notin chars
    THEN CHOOSE i \in 1..Len(s) : s[i] \notin chars /\ \A j \in 1..(i - 1) : s[j] \in chars
    ELSE Len(s) + 1

LastKept(s, chars) ==
    IF \E i \in 1..Len(s) : s[i] \notin chars
    THEN CHOOSE i \in 1..Len(s) : s[i] \notin chars /\ \A j \in (i + 1)..Len(s) : s[j] \in chars
    ELSE 0

\* str.strip(chars): every leading and trailing character that is in chars removed
StripChars(s, chars) == SubSeq(s, FirstKept(s, chars), LastKept(s, chars))

Strip(s) == StripChars(s, Whitespace)

StartsWith(s, p) == Len(s) >= Len(p) /\ SubSeq(s, 1, Len(p)) = p

(***************************************************************************)
(* json.loads, on the JSON texts the model feeds it: objects (nested or    *)
(* not), strings without escapes, unsigned integers, null, true, false.    *)
(* Arrays, escapes, signs and fractions are not in any input.              *)
(***************************************************************************)
JNull == None
JNum(digits) == [t |-> "num", v |-> digits]
JStr(chars) == [t |-> "str", v |-> chars]
JBool(name) == [t |-> "bool", v |-> name]
JObj(map) == [t |-> "obj", v |-> map]

Digits == {"0", "1", "2", "3", "4", "5", "6", "7", "8", "9"}

ParseFail == [ok |-> FALSE, next |-> 0, v |-> JNull]
Parsed(value, next) == [ok |-> TRUE, next |-> next, v |-> value]

\* the first position at or after i that holds no JSON whitespace
SkipWs(s, i) ==
    IF \E j \in i..Len(s) : s[j] \notin Whitespace
    THEN CHOOSE j \in i..Len(s) : s[j] \notin Whitespace /\ \A k \in i..(j - 1) : s[k] \in Whitespace
    ELSE Len(s) + 1

\* s[i] is the opening quote; a raw control character inside a string is an error
ParseString(s, i) ==
    IF \E j \in (i + 1)..Len(s) : s[j] = QT
    THEN LET j == CHOOSE j \in (i + 1)..Len(s) : s[j] = QT /\ \A k \in (i + 1)..(j - 1) : s[k] # QT
         IN  IF \E k \in (i + 1)..(j - 1) : s[k] \in {NL, "\t", "\r"}
             THEN ParseFail
             ELSE Parsed(JStr(SubSeq(s, i + 1, j - 1)), j + 1)
    ELSE ParseFail

\* s[i] is a digit; a leading zero ends the number
ParseNumber(s, i) ==
    IF s[i] = "0"
    THEN Parsed(JNum(<<"0">>), i + 1)
    ELSE LET j == IF \E k \in i..Len(s) : s[k] \notin Digits
                  THEN CHOOSE k \in i..Len(s) : s[k] \notin Digits /\ \A m \in i..(k - 1) : s[m] \in Digits
                  ELSE Len(s) + 1
         IN  Parsed(JNum(SubSeq(s, i, j - 1)), j)

ParseLiteral(s, i, word, value) ==
    IF i + Len(word) - 1 <= Len(s) /\ SubSeq(s, i, i + Len(word) - 1) = word
    THEN Parsed(value, i + Len(word))
    ELSE ParseFail

RECURSIVE ParseValue(_, _), ParseMembers(_, _, _)

ParseValue(s, i) ==
    IF i > Len(s) THEN ParseFail
    ELSE IF s[i] = QT THEN ParseString(s, i)
    ELSE IF s[i] \in Digits THEN ParseNumber(s, i)
    ELSE IF s[i] = "n" THEN ParseLiteral(s, i, <<"n", "u", "l", "l">>, JNull)
    ELSE IF s[i] = "t" THEN ParseLiteral(s, i, <<"t", "r", "u", "e">>, JBool("true"))
    ELSE IF s[i] = "f" THEN ParseLiteral(s, i, <<"f", "a", "l", "s", "e">>, JBool("false"))
    ELSE IF s[i] = "{"
         THEN LET j == SkipWs(s, i + 1)
              IN  IF j <= Len(s) /\ s[j] = "}"
                  THEN Parsed(JObj(<<>>), j + 1)
                  ELSE ParseMembers(s, j, <<>>)
    ELSE ParseFail

\* i is where a key is expected; acc holds the members read so far.
\* A repeated key keeps its last value.
ParseMembers(s, i, acc) ==
    IF i > Len(s) \/ s[i] # QT THEN ParseFail
    ELSE LET key == ParseString(s, i)
             colon == SkipWs(s, key.next)
         IN  IF ~key.ok \/ colon > Len(s) \/ s[colon] # ":" THEN ParseFail
             ELSE LET val == ParseValue(s, SkipWs(s, colon + 1))
                      sep == SkipWs(s, val.next)
                      map == (key.v.v :> val.v) @@ acc
                  IN  IF ~val.ok \/ sep > Len(s) THEN ParseFail
                      ELSE IF s[sep] = "}" THEN Parsed(JObj(map), sep + 1)
                      ELSE IF s[sep] = "," THEN ParseMembers(s, SkipWs(s, sep + 1), map)
                      ELSE ParseFail

(***************************************************************************)
(* What a call gives its caller: exc = "" and a value, or an exception.    *)
(***************************************************************************)
Returned(value) == [exc |-> "", msg |-> "", value |-> value]
Raised(exc, msg) == [exc |-> exc, msg |-> msg, value |-> None]
NotCalled == [exc |-> "-", msg |-> "", value |-> None]

\* json.loads(s): surrounding whitespace is allowed, anything else after the
\* value is "Extra data"
json_loads(s) ==
    LET r == ParseValue(s, SkipWs(s, 1))
    IN  IF r.ok /\ SkipWs(s, r.next) > Len(s)
        THEN Returned(r.v)
        ELSE Raised("JSONDecodeError", "")

(***************************************************************************)
(* _extract_json (core.py)                                                 *)
(***************************************************************************)
FenceJson == <<BT, BT, BT, "j", "s", "o", "n">>
Fence == <<BT, BT, BT>>

\* the except clause logs and re-raises, so the outcome is json.loads's
_extract_json(text) ==
    IF StartsWith(Strip(text), FenceJson)
    THEN json_loads(StripChars(StripChars(Strip(text), Range(FenceJson)), Range(Fence)))
    ELSE json_loads(text)

(***************************************************************************)
(* _extract_json called on its own (tests/test_library.py calls it so).    *)
(* The text is assembled from narrative before the fence, the opening      *)
(* fence, the enclosed text, the closing fence and narrative after it.     *)
(***************************************************************************)
TextA1 == <<"{", QT, "a", QT, ":", "1", "}">>
TextA1BOk == <<"{", QT, "a", QT, ":", "1", ",", QT, "b", QT, ":", QT, "o", "k", QT, "}">>
TextMultiLine == <<"{", NL, SP, QT, "a", QT, ":", SP, "1", ",", NL, SP, QT, "b", QT, ":", SP, QT, "o", "k", QT, NL, "}">>
TextEmptyObject == <<"{", "}">>
TextTextOk == <<"{", QT, "t", "e", "x", "t", QT, ":", QT, "o", "k", QT, "}">>
TextNotJson == <<"T", "h", "i", "s", SP, "i", "s", SP, "n", "o", "t", SP, "J", "S", "O", "N">>
TextTruncated == <<"{", QT, "a", QT, ":", "1">>
TextNumber == <<"7">>

Prefixes == {<<>>, <<"S", "u", "r", "e", "!", NL>>, <<NL>>}
Opens == {<<>>, FenceJson \o <<NL>>, Fence \o <<NL>>, FenceJson}
Bodies == {TextA1, TextA1BOk, TextMultiLine, TextEmptyObject, TextTextOk,
           TextNotJson, TextTruncated, TextNumber}
Closes == {<<>>, <<NL>> \o Fence, Fence}
Suffixes == {<<>>, <<NL, "T", "h", "a", "n", "k", "s">>, <<NL>>}

NoParts == [prefix |-> <<>>, open |-> <<>>, body |-> <<>>, close |-> <<>>, suffix |-> <<>>]
Assemble(p) == p.prefix \o p.open \o p.body \o p.close \o p.suffix

ExtractIdle ==
    /\ response_text = <<>>
    /\ parts = NoParts
    /\ extracted = NotCalled

InitExtract ==
    /\ parts \in [prefix : Prefixes, open : Opens, body : Bodies, close : Closes, suffix : Suffixes]
    /\ response_text = Assemble(parts)
    /\ extracted = NotCalled

ExtractJson ==
    /\ extracted = NotCalled
    /\ extracted' = _extract_json(response_text)
    /\ UNCHANGED <<response_text, parts>>

(***************************************************************************)
(* Schemas.  A value handed to set_schema is a pydantic model class (form  *)
(* "model"), a dict (form "dict", with or without a "properties" entry),   *)
(* another class (form "type"), a str (form "str"), or None.  A model      *)
(* class lists its fields in declaration order; required are the fields    *)
(* without a default, described the fields declared with a description.    *)
(* The dict of a model class is its model_json_schema() document, as       *)
(* sample.py registers it.                                                 *)
(***************************************************************************)
A == <<"a">>
B == <<"b">>
C == <<"c">>

ModelClass(fields, required, described) ==
    [form |-> "model", has_properties |-> TRUE, fields |-> fields,
     required |-> required, described |-> described]
PlainDict(fields, required, described) ==
    [form |-> "dict", has_properties |-> TRUE, fields |-> fields,
     required |-> required, described |-> described]
DictNoProperties ==
    [form |-> "dict", has_properties |-> FALSE, fields |-> <<>>, required |-> {}, described |-> {}]
OtherClass ==
    [form |-> "type", has_properties |-> FALSE, fields |-> <<>>, required |-> {}, described |-> {}]
StrValue ==
    [form |-> "str", has_properties |-> FALSE, fields |-> <<>>, required |-> {}, described |-> {}]

TypeOf(v) == IF v = None THEN "NoneType" ELSE v.form

\* the plain {properties, required} document of a model class, and back
AsDict(m) == [m EXCEPT !.form = "dict"]
AsModel(d) == [d EXCEPT !.form = "model"]

(***************************************************************************)
(* SchemaManager (schema_manager.py)                                       *)
(***************************************************************************)
NoSchemaMsg == "No schema has been set. Use set_schema() first."
BadSchemaMsg == "Schema must be either a Pydantic model or a JSON schema dictionary."

\* the negation of the if of set_schema: isinstance(schema, dict), or a class that
\* is a subclass of BaseModel
set_schema_accepts(v) == TypeOf(v) = "dict" \/ TypeOf(v) = "model"

\* a set_schema that keeps the first schema
set_schema_store_first(old, v) == IF old = None THEN v ELSE old

\* the registry after set_schema(v) returned
set_schema_store(old, v) == v

get_schema(reg) ==
    IF reg = None THEN Raised("ValueError", NoSchemaMsg) ELSE Returned(reg)

(***************************************************************************)
(* generate_structured_prompt (core.py).  The prompt is a fixed template   *)
(* around json.dumps(formatted_schema) and the user prompt, so it is       *)
(* modelled by those two.                                                  *)
(***************************************************************************)
\* a dict has neither model_json_schema nor model_fields
HasModelApi(s) == TypeOf(s) = "model"

DescriptionOf(s, key) ==
    IF key \in s.described THEN <<"description of", key>> ELSE <<"A value for", key>>

generate_structured_prompt(s, user_prompt) ==
    IF ~HasModelApi(s)
    THEN Raised("AttributeError", "model_json_schema")
    ELSE Returned([formatted_schema |->
                       [i \in 1..Len(s.fields) |->
                           [key |-> s.fields[i],
                            description |-> DescriptionOf(s, s.fields[i]),
                            required |-> s.fields[i] \in s.required]],
                   user_prompt |-> user_prompt])

(***************************************************************************)
(* validate_response (core.py)                                             *)
(***************************************************************************)
IsSubstring(key, str) ==
    \E i \in 1..(Len(str) - Len(key) + 1) : SubSeq(str, i, i + Len(key) - 1) = key

\* (key in response_json) then response_json[key], for one key:
\*   a dict gives its value, or None when the key is absent;
\*   a str is searched for the key and cannot be indexed by it;
\*   a number, a bool and None are not iterable
validate_key(candidate, key) ==
    IF candidate.t = "obj"
    THEN IF key \in DOMAIN candidate.v
         THEN Returned(candidate.v[key])
         ELSE Returned(None)
    ELSE IF candidate.t = "str"
    THEN IF IsSubstring(key, candidate.v)
         THEN Raised("TypeError", "string indices must be integers")
         ELSE Returned(None)
    ELSE Raised("TypeError", "argument is not iterable")

\* validate_response that starts from a copy of the response
validate_response_keep_extra(json, s) ==
    IF ~HasModelApi(s)
    THEN Raised("AttributeError", "model_fields")
    ELSE LET keys == Range(s.fields)
         IN  IF \E k \in keys : validate_key(json, k).exc # ""
             THEN Raised("TypeError", "")
             ELSE Returned(JObj([k \in keys |-> validate_key(json, k).value] @@
                                (IF json.t = "obj" THEN json.v ELSE <<>>)))

validate_response(json, s) ==
    IF ~HasModelApi(s)
    THEN Raised("AttributeError", "model_fields")
    ELSE LET keys == Range(s.fields)
         IN  IF \E k \in keys : validate_key(json, k).exc # ""
             THEN LET i == CHOOSE i \in 1..Len(s.fields) :
                               /\ validate_key(json, s.fields[i]).exc # ""
                               /\ \A j \in 1..(i - 1) : validate_key(json, s.fields[j]).exc = ""
                  IN  validate_key(json, s.fields[i])
             ELSE Returned(JObj([k \in keys |-> validate_key(json, k).value]))

(***************************************************************************)
(* The registry operations                                                 *)
(***************************************************************************)
ModelAB == ModelClass(<<A, B>>, {A}, {A})
ModelBA == ModelClass(<<B, A>>, {A, B}, {})
DictAB == AsDict(ModelAB)

SetArgs == {ModelAB, ModelBA, DictAB, DictNoProperties, OtherClass, StrValue, None}

NeverSet == [any |-> FALSE, arg |-> None, replaced |-> FALSE]

RegistryStart ==
    /\ _schema = None
    /\ last = [op |-> "none", arg |-> None, out |-> NotCalled]
    /\ lastSet = NeverSet

SetSchema(v) ==
    /\ IF set_schema_accepts(v)
       THEN /\ _schema' = set_schema_store(_schema, v)
            /\ last' = [op |-> "set", arg |-> v, out |-> Returned(None)]
            /\ lastSet' = [any |-> TRUE, arg |-> v, replaced |-> lastSet.any /\ lastSet.arg # v]
       ELSE /\ last' = [op |-> "set", arg |-> v, out |-> Raised("ValueError", BadSchemaMsg)]
            /\ UNCHANGED <<_schema, lastSet>>
    /\ UNCHANGED <<callvars, exvars, valvars>>

GetSchema ==
    /\ last' = [op |-> "get", arg |-> None, out |-> get_schema(_schema)]
    /\ UNCHANGED <<_schema, lastSet, callvars, exvars, valvars>>

(***************************************************************************)
(* generate_response (core.py).  One step reads the schema and builds the  *)
(* prompt; each further step is one pass of the for loop, from ollama.chat *)
(* to the return, the raise or the next pass.                              *)
(***************************************************************************)
ExhaustedMsg == "Failed to obtain a valid JSON response after retries."

UserPrompts == {"Say hello", "Say something"}

TextBOnly == <<"{", QT, "b", QT, ":", QT, "o", "k", QT, "}">>
TextA1C2 == <<"{", QT, "a", QT, ":", "1", ",", QT, "c", QT, ":", "2", "}">>

ResponseTexts ==
    {TextNotJson,
     Fence \o <<NL>> \o TextA1BOk \o <<NL>> \o Fence,
     TextA1BOk,
     TextBOnly,
     FenceJson \o <<NL>> \o TextA1C2 \o <<NL>> \o Fence}

\* ollama.chat and response["message"]["content"]: a text, or an exception
ProviderExceptions == {"ResponseError", "JSONDecodeError", "KeyboardInterrupt"}
Replied(text) == [kind |-> "text", text |-> text, exc |-> ""]
Failed(exc) == [kind |-> "raise", text |-> <<>>, exc |-> exc]
ProviderOutcomes == {Replied(t) : t \in ResponseTexts} \cup {Failed(e) : e \in ProviderExceptions}

Continue == [ctl |-> "continue", out |-> NotCalled]
Leave(out) == [ctl |-> IF out.exc = "" THEN "return" ELSE "raise", out |-> out]

\* run_attempt with the decode error of the extractor re-raised, not retried
run_attempt_no_retry(s, outcome) ==
    IF outcome.kind = "raise"
    THEN IF outcome.exc = "JSONDecodeError"
         THEN Continue
         ELSE Leave(Raised(outcome.exc, "provider"))
    ELSE LET j == _extract_json(outcome.text)
         IN  IF j.exc = "JSONDecodeError"
             THEN Leave(j)
             ELSE Leave(validate_response(j.value, s))

\* the try statement of one pass: except json.JSONDecodeError goes on to the
\* next pass, LLMValidationError and every other exception are re-raised
run_attempt(s, outcome) ==
    IF outcome.kind = "raise"
    THEN IF outcome.exc = "JSONDecodeError"
         THEN Continue
         ELSE Leave(Raised(outcome.exc, "provider"))
    ELSE LET j == _extract_json(outcome.text)
         IN  IF j.exc = "JSONDecodeError"
             THEN Continue
             ELSE Leave(validate_response(j.value, s))

\* range(max_retries): one pass fewer
range_stop_exclusive(retries) == retries

\* range(max_retries + 1)
range_stop(retries) == retries + 1

CallIdle ==
    /\ pc = "idle"
    /\ max_retries = 0
    /\ prompt = ""
    /\ schema = None
    /\ structured_prompt = None
    /\ attempt = 0
    /\ invocations = <<>>
    /\ result = NotCalled

Finish(out) ==
    /\ pc' = "done"
    /\ result' = out

GenerateResponse(retries, user_prompt) ==
    /\ pc = "idle"
    /\ max_retries' = retries
    /\ prompt' = user_prompt
    /\ LET got == get_schema(_schema)
           built == generate_structured_prompt(got.value, user_prompt)
       IN  IF got.exc # ""
           THEN Finish(got) /\ UNCHANGED <<schema, structured_prompt>>
           ELSE IF built.exc # ""
           THEN Finish(built) /\ schema' = got.value /\ UNCHANGED structured_prompt
           ELSE /\ schema' = got.value
                /\ structured_prompt' = built.value
                /\ IF 0 < range_stop(retries)
                   THEN pc' = "loop" /\ UNCHANGED result
                   ELSE Finish(Raised("LLMValidationError", ExhaustedMsg))
    /\ UNCHANGED <<attempt, invocations, regvars, exvars, valvars>>

\* a pass that reads the registry again: prompt and validation follow the
\* schema the registry holds now
Attempt_rereads(outcome) ==
    /\ pc = "loop"
    /\ invocations' = Append(invocations,
                             [prompt |-> generate_structured_prompt(_schema, prompt).value,
                              outcome |-> outcome, moved |-> _schema # schema])
    /\ LET r == run_attempt(_schema, outcome)
       IN  IF r.ctl = "continue"
           THEN IF attempt + 1 < range_stop(max_retries)
                THEN attempt' = attempt + 1 /\ UNCHANGED <<pc, result>>
                ELSE Finish(Raised("LLMValidationError", ExhaustedMsg)) /\ UNCHANGED attempt
           ELSE Finish(r.out) /\ UNCHANGED attempt
    /\ UNCHANGED <<max_retries, prompt, schema, structured_prompt, regvars, exvars, valvars>>

Attempt(outcome) ==
    /\ pc = "loop"
    /\ invocations' = Append(invocations,
                             [prompt |-> structured_prompt, outcome |-> outcome, moved |-> _schema # schema])
    /\ LET r == run_attempt(schema, outcome)
       IN  IF r.ctl = "continue"
           THEN IF attempt + 1 < range_stop(max_retries)
                THEN attempt' = attempt + 1 /\ UNCHANGED <<pc, result>>
                ELSE Finish(Raised("LLMValidationError", ExhaustedMsg)) /\ UNCHANGED attempt
           ELSE Finish(r.out) /\ UNCHANGED attempt
    /\ UNCHANGED <<max_retries, prompt, schema, structured_prompt, regvars, exvars, valvars>>

\* the caller has the result; the frame is gone
Return ==
    /\ pc = "done"
    /\ pc' = "idle"
    /\ max_retries' = 0
    /\ prompt' = ""
    /\ schema' = None
    /\ structured_prompt' = None
    /\ attempt' = 0
    /\ invocations' = <<>>
    /\ result' = NotCalled
    /\ UNCHANGED <<regvars, exvars, valvars>>

(***************************************************************************)
(* validate_response called on its own                                     *)
(***************************************************************************)
FieldLists == {<<>>, <<A>>, <<B>>, <<A, B>>, <<B, A>>}
ValidatorSchemas ==
    UNION {{ModelClass(f, r, {}), PlainDict(f, r, {})} : <<f, r>> \in
              {<<f, r>> \in FieldLists \X SUBSET {A, B} : r \subseteq Range(f)}}

Blank == JStr(<<SP, SP>>)
CandidateValues == {JNum(<<"1">>), JStr(<<"o", "k">>), Blank, None}
CandidateMaps == UNION {[keys -> CandidateValues] : keys \in SUBSET {A, B, C}}
Candidates == {JObj(m) : m \in CandidateMaps} \cup {JNum(<<"7">>), JStr(<<"a">>)}

ValidateIdle ==
    /\ response_json = None
    /\ vschema = None
    /\ validated_response = NotCalled

InitValidate ==
    /\ response_json \in Candidates
    /\ vschema \in ValidatorSchemas
    /\ validated_response = NotCalled

ValidateResponse ==
    /\ validated_response = NotCalled
    /\ validated_response' = validate_response(response_json, vschema)
    /\ UNCHANGED <<response_json, vschema>>

(***************************************************************************)
(* Specifications                                                          *)
(***************************************************************************)
Init == RegistryStart /\ CallIdle /\ ExtractIdle /\ ValidateIdle

Next ==
    \/ \E v \in SetArgs : SetSchema(v)
    \/ GetSchema
    \/ \E retries \in 0..MaxRetries, user_prompt \in UserPrompts : GenerateResponse(retries, user_prompt)
    \/ \E outcome \in ProviderOutcomes : Attempt(outcome)
    \/ Return

Spec == Init /\ [][Next]_vars

\* _extract_json on every assembled text
InitX == RegistryStart /\ CallIdle /\ InitExtract /\ ValidateIdle
NextX == ExtractJson /\ UNCHANGED <<regvars, callvars, valvars>>
SpecExtract == InitX /\ [][NextX]_vars

\* validate_response on every candidate and schema
InitV == RegistryStart /\ CallIdle /\ ExtractIdle /\ InitValidate
NextV == ValidateResponse /\ UNCHANGED <<regvars, callvars, exvars>>
SpecValidate == InitV /\ [][NextV]_vars

(***************************************************************************)
(* Vocabulary of the properties                                            *)
(***************************************************************************)
\* the loop of the call in progress was entered
LoopEntered == pc \in {"loop", "done"} /\ structured_prompt # None

\* invocation i was answered by a text that _extract_json rejects
FailsExtraction(i) ==
    /\ invocations[i].outcome.kind = "text"
    /\ _extract_json(invocations[i].outcome.text).exc = "JSONDecodeError"

\* invocation i was answered by a text that _extract_json reads as an object
ObjectAt(i) ==
    /\ invocations[i].outcome.kind = "text"
    /\ _extract_json(invocations[i].outcome.text).exc = ""
    /\ _extract_json(invocations[i].outcome.text).value.t = "obj"

CandidateAt(i) == _extract_json(invocations[i].outcome.text).value

IsBlankString(value) == value.t = "str" /\ Range(value.v) \subseteq Whitespace

\* a field is missing from a candidate map when it is absent, null, or a
\* string of whitespace only
IsMissing(candidate, key) ==
    \/ key \notin DOMAIN candidate.v
    \/ candidate.v[key] = None
    \/ IsBlankString(candidate.v[key])

\* the required fields of s that are missing from the candidate, in field order
MissingRequired(candidate, s) ==
    SelectSeq(s.fields, LAMBDA key : key \in s.required /\ IsMissing(candidate, key))

\* every field of s, with the candidate's value or None
NormalisedMap(candidate, s) ==
    JObj([key \in Range(s.fields) |->
             IF key \in DOMAIN candidate.v THEN candidate.v[key] ELSE None])

(***************************************************************************)
(* C1: within one generate_response call, as long as every response so far *)
(* failed JSON extraction and at most max_retries of them were received,   *)
(* the provider is invoked again; and once the first k responses           *)
(* (0 <= k <= max_retries) failed extraction and response k+1 is a JSON    *)
(* object with no required field missing, the call has returned the        *)
(* validated map built from response k+1 after exactly k+1 invocations,    *)
(* none after the validation.                                              *)
(***************************************************************************)
RetryThenSuccess ==
    /\ (/\ LoopEntered
        /\ Len(invocations) <= max_retries
        /\ \A j \in 1..Len(invocations) : FailsExtraction(j))
       => pc = "loop"
    /\ \A i \in 1..Len(invocations) :
          (/\ \A j \in 1..(i - 1) : FailsExtraction(j)
           /\ ObjectAt(i)
           /\ MissingRequired(CandidateAt(i), schema) = <<>>)
          => /\ i <= max_retries + 1
             /\ Len(invocations) = i
             /\ pc = "done"
             /\ result = Returned(NormalisedMap(CandidateAt(i), schema))

\* the last allowed attempt succeeded after max_retries failures
RetryThenSuccessWitness ==
    /\ pc = "done"
    /\ max_retries >= 1
    /\ Len(invocations) = max_retries + 1
    /\ \A j \in 1..max_retries : FailsExtraction(j)
    /\ ObjectAt(max_retries + 1)
    /\ result = Returned(NormalisedMap(CandidateAt(max_retries + 1), schema))

(***************************************************************************)
(* C2: when every provider response of a generate_response call is text    *)
(* that fails JSON extraction, the attempt counter runs from 0 to           *)
(* max_retries, the provider is invoked exactly max_retries + 1 times, and  *)
(* the call then raises LLMValidationError "Failed to obtain a valid JSON   *)
(* response after retries."; no call ever gives its caller a               *)
(* JSONDecodeError.                                                        *)
(***************************************************************************)
Exhaustion ==
    /\ (LoopEntered /\ \A j \in 1..Len(invocations) : FailsExtraction(j))
       => /\ 0 <= attempt /\ attempt <= max_retries
          /\ pc = "loop" => Len(invocations) = attempt
          /\ pc = "done" => /\ Len(invocations) = max_retries + 1
                            /\ attempt = max_retries
                            /\ result = Raised("LLMValidationError", ExhaustedMsg)
    /\ result.exc # "JSONDecodeError"

ExhaustionWitness ==
    /\ pc = "done"
    /\ max_retries >= 1
    /\ Len(invocations) = max_retries + 1
    /\ \A j \in 1..Len(invocations) : FailsExtraction(j)
    /\ result = Raised("LLMValidationError", ExhaustedMsg)

(***************************************************************************)
(* C3: when on some attempt the provider's text parses as a JSON object    *)
(* that lacks a required field of the schema, generate_response fails on   *)
(* that attempt with the schema validation LLMValidationError, without     *)
(* another provider invocation.                                            *)
(***************************************************************************)
SchemaErrorIsFatal ==
    \A i \in 1..Len(invocations) :
        (/\ ObjectAt(i)
         /\ \E key \in schema.required : key \notin DOMAIN CandidateAt(i).v)
        => /\ pc = "done"
           /\ Len(invocations) = i
           /\ result.exc = "LLMValidationError"
           /\ result.msg # ExhaustedMsg

(***************************************************************************)
(* C4: an exception raised by the provider invocation on any attempt,      *)
(* whatever its type, ends the call: it reaches the caller unchanged and   *)
(* the provider is not invoked again.                                      *)
(***************************************************************************)
ProviderErrorIsFatal ==
    \A i \in 1..Len(invocations) :
        invocations[i].outcome.kind = "raise"
        => /\ pc = "done"
           /\ Len(invocations) = i
           /\ result = Raised(invocations[i].outcome.exc, "provider")

(***************************************************************************)
(* C5: validate_response on a candidate map raises the schema validation   *)
(* LLMValidationError if and only if a required field is missing (absent,  *)
(* null, or a whitespace-only string), and the error then carries one      *)
(* error per missing required field, in schema field order, with the       *)
(* candidate map.                                                          *)
(***************************************************************************)
RequiredMissingDetected ==
    (validated_response # NotCalled /\ response_json.t = "obj")
    => LET missing == MissingRequired(response_json, vschema)
       IN  /\ validated_response.exc = "LLMValidationError" <=> missing # <<>>
           /\ missing # <<>> =>
                 validated_response.value = [errors |-> missing, response_json |-> response_json]

(***************************************************************************)
(* C6: whenever validate_response returns for a candidate map, the keys of *)
(* the result are exactly the field names of the schema; a field present   *)
(* in the candidate has the candidate's value, a field absent from it has  *)
(* None, and keys of the candidate that are not fields do not appear.      *)
(***************************************************************************)
KeyCompleteness ==
    (validated_response.exc = "" /\ response_json.t = "obj")
    => /\ validated_response.value.t = "obj"
       /\ DOMAIN validated_response.value.v = Range(vschema.fields)
       /\ \A key \in Range(vschema.fields) :
             validated_response.value.v[key] =
                 IF key \in DOMAIN response_json.v THEN response_json.v[key] ELSE None
       /\ \A key \in DOMAIN response_json.v :
             key \notin Range(vschema.fields) => key \notin DOMAIN validated_response.value.v

\* schema {a, b}, candidate with a and the extra key c, without b
KeyCompletenessWitness ==
    /\ validated_response.exc = ""
    /\ vschema.fields = <<A, B>>
    /\ response_json.t = "obj"
    /\ DOMAIN response_json.v = {A, C}
    /\ validated_response.value = JObj((A :> response_json.v[A]) @@ (B :> None))

(***************************************************************************)
(* C7: get_schema raises exactly when no set_schema has succeeded so far;  *)
(* otherwise it returns the schema of the most recent successful           *)
(* set_schema; get_schema leaves the registry as it is, and a registry     *)
(* that holds a schema never goes back to holding none.                    *)
(***************************************************************************)
LastWriteWins ==
    /\ [](last.op = "get" =>
             /\ last.out.exc # "" <=> ~lastSet.any
             /\ ~lastSet.any => last.out = Raised("ValueError", NoSchemaMsg)
             /\ lastSet.any => last.out = Returned(lastSet.arg))
    /\ [][last'.op = "get" => _schema' = _schema]_vars
    /\ [][_schema # None => _schema' # None]_vars

\* a get after a set_schema that replaced another schema
LastWriteWinsWitness ==
    /\ last.op = "get"
    /\ lastSet.replaced
    /\ last.out = Returned(lastSet.arg)

(***************************************************************************)
(* C8: a schema registered as its plain {properties, required} document    *)
(* behaves as the same schema registered as a model class: set_schema      *)
(* accepts it, and generate_response builds the prompt the model class     *)
(* gives for the same user prompt.                                         *)
(***************************************************************************)
PlainDocumentInterchangeable ==
    /\ (last.op = "set" /\ TypeOf(last.arg) = "dict" /\ last.arg.has_properties)
       => last.out.exc = ""
    /\ (pc \in {"loop", "done"} /\ TypeOf(schema) = "dict" /\ schema.has_properties)
       => /\ result.exc # "AttributeError"
          /\ Returned(structured_prompt) = generate_structured_prompt(AsModel(schema), prompt)

(***************************************************************************)
(* C9: for a text that holds a triple-backtick fenced block around a valid *)
(* JSON object, with or without the json tag, with or without narrative    *)
(* before or after the fence, on one line or several, _extract_json        *)
(* returns what json.loads returns for the enclosed text; on clean JSON    *)
(* text it returns what json.loads returns.                                *)
(***************************************************************************)
IsFenced(p) == StartsWith(p.open, Fence) /\ p.close # <<>>
IsClean(p) == p.prefix = <<>> /\ p.open = <<>> /\ p.close = <<>> /\ p.suffix = <<>>

FencedBlockExtracted ==
    extracted # NotCalled
    => /\ (IsFenced(parts) /\ json_loads(parts.body).exc = "" /\ json_loads(parts.body).value.t = "obj")
          => extracted = json_loads(parts.body)
       /\ IsClean(parts) => extracted = json_loads(parts.body)

(***************************************************************************)
(* C10: set_schema with a value that is neither a model class nor a dict   *)
(* of the properties/required shape raises, and the registry keeps what it *)
(* held.                                                                   *)
(***************************************************************************)
RecognisedShape(v) ==
    \/ TypeOf(v) = "model"
    \/ TypeOf(v) = "dict" /\ v.has_properties

InvalidSchemaRejected ==
    [][(last'.op = "set" /\ ~RecognisedShape(last'.arg))
       => (last'.out = Raised("ValueError", BadSchemaMsg) /\ _schema' = _schema)]_vars

(***************************************************************************)
(* C11: within one generate_response call the schema is read and the       *)
(* prompt is built once, before the first provider invocation; every       *)
(* provider invocation of the call is sent that same prompt and every      *)
(* attempt is validated against that same schema, also when set_schema     *)
(* has put another schema in the registry since the call read it.          *)
(***************************************************************************)
SchemaReadOnce ==
    /\ [](LoopEntered =>
             /\ Returned(structured_prompt) = generate_structured_prompt(schema, prompt)
             /\ \A i \in 1..Len(invocations) : invocations[i].prompt = structured_prompt
             /\ (/\ pc = "done"
                 /\ Len(invocations) >= 1
                 /\ invocations[Len(invocations)].outcome.kind = "text"
                 /\ _extract_json(invocations[Len(invocations)].outcome.text).exc = "")
                => result = validate_response(CandidateAt(Len(invocations)), schema))
    /\ [][(pc = "idle" /\ pc' = "loop") => (schema' = _schema /\ invocations' = <<>>)]_vars
    /\ [][(pc = "loop" /\ pc' \in {"loop", "done"})
          => (schema' = schema /\ structured_prompt' = structured_prompt /\ prompt' = prompt)]_vars

\* the second attempt ran after set_schema had replaced the schema the call
\* read, and was validated against the schema the call read
SchemaReadOnceWitness ==
    /\ pc = "done"
    /\ Len(invocations) = 2
    /\ ~invocations[1].moved
    /\ invocations[2].moved
    /\ _schema # schema
    /\ invocations[2].prompt = invocations[1].prompt
    /\ ObjectAt(2)
    /\ result = validate_response(CandidateAt(2), schema)
    /\ result # validate_response(CandidateAt(2), _schema)

====
